---------------------------- MODULE Spec2Model ----------------------------
(***************************************************************************)
(* A model of jump (src/jump/jump.py): a command line tool that connects   *)
(* to a remote host, lists / starts / attaches to / kills jupyter servers  *)
(* there and opens an ssh tunnel plus a browser on the chosen server.      *)
(*                                                                         *)
(* Text is modelled as a sequence of tokens (one-character strings for     *)
(* the characters the code inspects: blanks, ":", "?", the sentinel; whole *)
(* words for the parts the code never looks into).                         *)
(***************************************************************************)
EXTENDS Integers, Sequences, FiniteSets, TLC

(***************************************************************************)
(* Bounds of the model.                                                    *)
(***************************************************************************)
MaxProbe == 3
MaxOut == 3
MaxEnvs == 3
MaxList == 2

(***************************************************************************)
(* Python string operations on token sequences.                            *)
(***************************************************************************)
Whitespace == {" ", "\n"}

Range(s) == {s[i] : i \in 1..Len(s)}

SeqsUpTo(S, n) == UNION {[1..k -> S] : k \in 0..n}

StartsWith(s, p) == Len(p) <= Len(s) /\ SubSeq(s, 1, Len(p)) = p

EndsWith(s, p) == Len(p) <= Len(s) /\ SubSeq(s, Len(s) - Len(p) + 1, Len(s)) = p

\* first position at which sep occurs in s, 0 when it does not occur
IndexOf(s, sep) ==
    LET hits == {i \in 1..(Len(s) - Len(sep) + 1) : SubSeq(s, i, i + Len(sep) - 1) = sep}
    IN IF hits = {} THEN 0 ELSE CHOOSE i \in hits : \A j \in hits : i <= j

RECURSIVE PyLStrip(_)
PyLStrip(s) == IF s # <<>> /\ Head(s) \in Whitespace THEN PyLStrip(Tail(s)) ELSE s

RECURSIVE PyRStrip(_)
PyRStrip(s) ==
    IF s # <<>> /\ s[Len(s)] \in Whitespace THEN PyRStrip(SubSeq(s, 1, Len(s) - 1)) ELSE s

\* a strip that removes at most one blank on each side
PyStripOnce(s) ==
    LET l == IF s # <<>> /\ Head(s) \in Whitespace THEN Tail(s) ELSE s
    IN IF l # <<>> /\ l[Len(l)] \in Whitespace THEN SubSeq(l, 1, Len(l) - 1) ELSE l

\* str.strip()
PyStrip(s) == PyRStrip(PyLStrip(s))

\* str.split(sep) for a non-empty separator: the sequence of pieces
RECURSIVE PySplit(_, _)
PySplit(s, sep) ==
    LET i == IndexOf(s, sep)
    IN IF i = 0 THEN <<s>>
       ELSE <<SubSeq(s, 1, i - 1)>> \o PySplit(SubSeq(s, i + Len(sep), Len(s)), sep)

(***************************************************************************)
(* Remote._collect_talk and Remote.strip_talk.                             *)
(***************************************************************************)
Sentinel == <<"J">>

\* the banner text around the sentinel in the output of the probe command
CollectTalk(output) == PySplit(PyStrip(output), Sentinel)

strip_talk(talk, output) ==
    LET o1 == PyStrip(output)
        o2 == IF Len(talk[1]) > 0 /\ StartsWith(o1, talk[1])
              THEN SubSeq(o1, Len(talk[1]) + 1, Len(o1)) ELSE o1
        o3 == IF Len(talk[2]) > 0 /\ EndsWith(o2, talk[2])
              THEN SubSeq(o2, 1, Len(o2) - Len(talk[2])) ELSE o2
    IN o3

(***************************************************************************)
(* Python dicts are insertion ordered: a dict is a sequence of <<key,      *)
(* value>> pairs with pairwise different keys.                             *)
(***************************************************************************)
DictKeys(d) == [i \in 1..Len(d) |-> d[i][1]]

DictValues(d) == [i \in 1..Len(d) |-> d[i][2]]

DictHas(d, k) == \E i \in 1..Len(d) : d[i][1] = k

DictGet(d, k) == d[CHOOSE i \in 1..Len(d) : d[i][1] = k][2]

\* d[k] = v: an existing key keeps its position and takes the new value
DictSet(d, k, v) ==
    IF DictHas(d, k)
    THEN [i \in 1..Len(d) |-> IF d[i][1] = k THEN <<k, v>> ELSE d[i]]
    ELSE Append(d, <<k, v>>)

\* os.path.basename of a path given as its sequence of components
Basename(path) == IF path = <<>> THEN "" ELSE path[Len(path)]

\* {os.path.basename(env): env for env in env_list}
RECURSIVE EnvDict(_)
EnvDict(env_list) ==
    IF env_list = <<>> THEN <<>>
    ELSE LET n == Len(env_list)
         IN DictSet(EnvDict(SubSeq(env_list, 1, n - 1)), Basename(env_list[n]), env_list[n])

\* "".join(pieces)
RECURSIVE Join(_)
Join(pieces) == IF pieces = <<>> THEN <<>> ELSE Head(pieces) \o Join(Tail(pieces))

\* str.replace(old, ""): every occurrence of old removed
PyRemove(s, old) == Join(PySplit(s, old))

BinConda == <<"bin", "conda">>

\* get_conda_envs without the alias for the base installation
CondaEnvsNoAlias(env_list, conda_exe) == EnvDict(env_list)

\* Remote.get_conda_envs, from the parsed listing and $CONDA_EXE
get_conda_envs(env_list, conda_exe) ==
    LET env_dict == EnvDict(env_list)
        conda_base_path == PyRemove(conda_exe, BinConda)
    IN IF conda_base_path \in Range(DictValues(env_dict))
       THEN DictSet(env_dict, "base", conda_base_path)
       ELSE env_dict

\* Remote.get_mamba_envs, from the parsed listing and $MAMBA_ROOT_PREFIX
get_mamba_envs(env_list, root_prefix) ==
    LET env_dict == EnvDict(env_list)
    IN IF root_prefix \in Range(DictValues(env_dict))
       THEN DictSet(env_dict, "base", root_prefix)
       ELSE env_dict

(***************************************************************************)
(* int(answer) of user_input's type_conversion: blanks around the number   *)
(* are allowed, a sign is allowed, anything else raises ValueError.        *)
(***************************************************************************)
DigitVal ==
    "0" :> 0 @@ "1" :> 1 @@ "2" :> 2 @@ "3" :> 3 @@ "4" :> 4 @@
    "5" :> 5 @@ "6" :> 6 @@ "7" :> 7 @@ "8" :> 8 @@ "9" :> 9

RECURSIVE DigitsValue(_)
DigitsValue(ds) ==
    IF ds = <<>> THEN 0
    ELSE 10 * DigitsValue(SubSeq(ds, 1, Len(ds) - 1)) + DigitVal[ds[Len(ds)]]

\* [ok |-> FALSE] stands for the ValueError of int()
PyInt(answer) ==
    LET t == PyStrip(answer)
        signed == t # <<>> /\ Head(t) \in {"-", "+"}
        ds == IF signed THEN Tail(t) ELSE t
    IN IF ds # <<>> /\ \A i \in 1..Len(ds) : ds[i] \in DOMAIN DigitVal
       THEN [ok |-> TRUE,
             val |-> IF signed /\ Head(t) = "-" THEN 0 - DigitsValue(ds) ELSE DigitsValue(ds)]
       ELSE [ok |-> FALSE, val |-> 0]

\* seq[i] with a Python index i: negative indices count from the end
PyIndexOk(seq, i) == 0 - Len(seq) <= i /\ i < Len(seq)

PyIndex(seq, i) == IF i < 0 THEN seq[Len(seq) + i + 1] ELSE seq[i + 1]

(***************************************************************************)
(* Server records: one line of "jupyter notebook list" per running server, *)
(* "<url> :: <notebook dir>".  Rec2 is a line that has no blanks around    *)
(* the "::" between the url and the directory.                             *)
(***************************************************************************)
Rec1 == [scheme |-> "http", host |-> "localhost", port |-> "8888", path |-> <<"/">>,
         query |-> <<"token=abc">>, sep |-> <<" ", ":", ":", " ">>, dir |-> "/home/u/work"]

Rec2 == [scheme |-> "http", host |-> "127.0.0.1", port |-> "8889", path |-> <<"/lab">>,
         query |-> <<"token=def">>, sep |-> <<":", ":">>, dir |-> "/home/u/data"]

Records == {Rec1, Rec2}

RecUrl(r) == <<r.scheme, "://", r.host, ":", r.port>> \o r.path \o <<"?">> \o r.query

\* the line of the listing that describes record r
RecordLine(r) == RecUrl(r) \o r.sep \o <<r.dir>>

Lines == {RecordLine(r) : r \in Records}

\* the record that a line of the listing describes
LineRec(line) == CHOOSE r \in Records : RecordLine(r) = line

(***************************************************************************)
(* urllib.parse.urlparse, ParseResult._replace(netloc=...) and geturl() on *)
(* token sequences.                                                        *)
(***************************************************************************)
PathTokens == {"/", "/lab"}

FirstIn(s, S) ==
    LET hits == {i \in 1..Len(s) : s[i] \in S}
    IN IF hits = {} THEN Len(s) + 1 ELSE CHOOSE i \in hits : \A j \in hits : i <= j

UrlParse(url) ==
    LET c == IndexOf(url, <<"://">>)
        scheme == IF c = 0 THEN <<>> ELSE SubSeq(url, 1, c - 1)
        rest == IF c = 0 THEN url ELSE SubSeq(url, c + 1, Len(url))
        n == FirstIn(rest, PathTokens \cup {"?"})
        after == SubSeq(rest, n, Len(rest))
        q == FirstIn(after, {"?"})
    IN [scheme |-> scheme,
        netloc |-> IF c = 0 THEN <<>> ELSE SubSeq(rest, 1, n - 1),
        path |-> IF c = 0 THEN rest ELSE SubSeq(after, 1, q - 1),
        query |-> SubSeq(after, q + 1, Len(after))]

\* ParseResult.port: the text after the ":" of the network location, or None
UrlPort(parsed) ==
    LET c == IndexOf(parsed.netloc, <<":">>)
    IN IF c = 0 \/ c = Len(parsed.netloc) THEN "None" ELSE parsed.netloc[c + 1]

GetUrl(parsed) ==
    (IF parsed.scheme = <<>> THEN <<>> ELSE parsed.scheme \o <<"://">>)
    \o parsed.netloc \o parsed.path
    \o (IF parsed.query = <<>> THEN <<>> ELSE <<"?">> \o parsed.query)

\* notebook_server = running[server_id].split(' :')[0]
NotebookServer(line) == PySplit(line, <<" ", ":">>)[1]

\* local_url of open_local
LocalUrl(url_remote, local_port) ==
    GetUrl([UrlParse(url_remote) EXCEPT !.netloc = <<"localhost", ":", local_port>>])

\* a port taken from the text before the first ":" of the record
KillPortFirstColon(server) == UrlPort(UrlParse(PySplit(server, <<":">>)[1]))

\* remote_port of kill: urlparse(server.split("::")[0]).port
KillPort(server) == UrlPort(UrlParse(PySplit(server, <<":", ":">>)[1]))

VARIABLES
    probe,            \* output of the probe command of _collect_talk
    talk,             \* Remote.talk
    sout,             \* an output text given to strip_talk
    sres,             \* the results of strip_talk applied once and twice
    manager,          \* --env-type
    env_list,         \* the "envs" of the manager's json listing
    base_path,        \* the manager's base installation
    registry,         \* available_envs
    pc,               \* the place of the invocation in cli and its sub-command
    machine,          \* Remote.machine: "none" before __init__, "ok", or "unset"
    exc,              \* the exception that ended the invocation
    error,            \* the first error condition that occurred
    exitcode,         \* exit status of the process, -1 while it runs
    env_name,         \* --env-name, or the name chosen at the prompt
    jupyter,          \* the launcher <<default_jupyter_command, jupyter_command>>
    ctx_running,      \* ctx.obj["running"]
    running,          \* running of start_jupyter_server
    invoked,          \* ctx.invoked_subcommand
    answer,           \* the last answer read by user_input
    asked,            \* the questions user_input has asked
    steps,            \* the remote steps executed so far
    opts,             \* the options read so far: --all, --lab, --module
    server_id,
    notebook_server,
    targets,          \* server_to_be_killed, the part not yet stopped
    stops,            \* the ports of the stop commands issued
    tunnel,           \* the port forwards opened
    browser,          \* the urls handed to the browser
    remote_servers    \* the lines "jupyter notebook list" prints on the remote now

svars == <<probe, talk, sout, sres>>

evars == <<manager, env_list, base_path, registry>>

effects == <<steps, stops, tunnel, browser>>

mvars ==
    <<pc, machine, exc, error, exitcode, env_name, jupyter, ctx_running, running,
      invoked, answer, asked, steps, opts, server_id, notebook_server, targets,
      stops, tunnel, browser>>

rvars == <<remote_servers>>

vars == <<svars, evars, mvars, rvars>>

StripIdle == probe = Sentinel /\ talk = <<>> /\ sout = <<>> /\ sres = <<>>

EnvsIdle == manager = "" /\ env_list = <<>> /\ base_path = <<>> /\ registry = <<>>

\* the servers of the remote host are not followed: each listing is any listing
RemoteIdle == remote_servers = <<>>

\* loadable: the modules that "module load" can load on the remote
NoOpts == [killall |-> FALSE, lab |-> FALSE, module |-> <<>>, loadable |-> {}]

MainIdle ==
    /\ pc = "platform" /\ machine = "none" /\ exc = "none" /\ error = "none"
    /\ exitcode = -1 /\ env_name = "None" /\ jupyter = <<<<>>, <<>>>>
    /\ ctx_running = <<>> /\ running = <<>> /\ invoked = "" /\ answer = <<>>
    /\ asked = {} /\ steps = {} /\ opts = NoOpts /\ server_id = -1
    /\ notebook_server = <<>> /\ targets = <<>> /\ stops = <<>> /\ tunnel = <<>>
    /\ browser = <<>>

(***************************************************************************)
(* SpecStrip: the probe output is read once, then strip_talk is applied to *)
(* an output text and to its own result.                                   *)
(***************************************************************************)
ProbeChars == {"a", " ", "J"}
OutChars == {"a", " "}

ProbeOutputs == {o \in SeqsUpTo(ProbeChars, MaxProbe) : IndexOf(o, Sentinel) # 0}

StripInit ==
    /\ probe \in ProbeOutputs
    /\ talk = <<>>
    /\ sout \in SeqsUpTo(OutChars, MaxOut)
    /\ sres = <<>>
    /\ EnvsIdle
    /\ MainIdle
    /\ RemoteIdle

Probe ==
    /\ talk = <<>>
    /\ talk' = CollectTalk(probe)
    /\ UNCHANGED <<probe, sout, sres, evars, mvars, rvars>>

StripFirst ==
    /\ talk # <<>> /\ sres = <<>>
    /\ sres' = <<strip_talk(talk, sout)>>
    /\ UNCHANGED <<probe, talk, sout, evars, mvars, rvars>>

StripAgain ==
    /\ Len(sres) = 1
    /\ sres' = Append(sres, strip_talk(talk, sres[1]))
    /\ UNCHANGED <<probe, talk, sout, evars, mvars, rvars>>

StripNext == Probe \/ StripFirst \/ StripAgain

SpecStrip == StripInit /\ [][StripNext]_vars

\* C7 (as stated): for every banner pair and every output text, stripping the
\* stripped text again gives the same text as stripping once.
C7_Idempotent == Len(sres) = 2 => sres[2] = sres[1]

\* C7 (amended): with the empty banner pair (no text around the sentinel),
\* stripping the stripped text again gives the same text as stripping once.
C7_IdempotentEmptyBanner ==
    (Len(sres) = 2 /\ talk[1] = <<>> /\ talk[2] = <<>>) => sres[2] = sres[1]

\* an empty banner pair, an output with blanks around it, stripped twice
C7_Witness ==
    /\ Len(sres) = 2 /\ talk[1] = <<>> /\ talk[2] = <<>>
    /\ sout # sres[1] /\ sres[1] # <<>>


(***************************************************************************)
(* SpecEnvs: the environment registry built from a structured listing.     *)
(***************************************************************************)
CondaBase == <<"opt", "conda">>

EnvPaths ==
    { CondaBase,
      <<"opt", "conda", "envs", "a">>,
      <<"opt", "conda", "envs", "b">>,
      <<"home", "envs", "a">>,
      <<"home", "envs", "base">>,
      <<"home", "envs", "conda">> }

\* listings of pairwise different paths
EnvListings(paths, n) ==
    {l \in SeqsUpTo(paths, n) : \A i, j \in 1..Len(l) : i # j => l[i] # l[j]}

EnvsInit ==
    /\ manager \in {"conda", "mamba"}
    /\ env_list \in EnvListings(EnvPaths, MaxEnvs)
    /\ base_path = CondaBase
    /\ registry = <<"pending">>
    /\ StripIdle
    /\ MainIdle
    /\ RemoteIdle

GetCondaEnvs ==
    /\ manager = "conda" /\ registry = <<"pending">>
    /\ registry' = get_conda_envs(env_list, base_path \o BinConda)
    /\ UNCHANGED <<svars, manager, env_list, base_path, mvars, rvars>>

GetMambaEnvs ==
    /\ manager = "mamba" /\ registry = <<"pending">>
    /\ registry' = get_mamba_envs(env_list, base_path)
    /\ UNCHANGED <<svars, manager, env_list, base_path, mvars, rvars>>

EnvsNext == GetCondaEnvs \/ GetMambaEnvs

SpecEnvs == EnvsInit /\ [][EnvsNext]_vars

RegistryBuilt == registry # <<"pending">>

Others == {i \in 1..Len(env_list) : env_list[i] # base_path}

\* the listing is N paths with pairwise different basenames plus the base path
C8_Listing ==
    /\ base_path \in Range(env_list)
    /\ \A i, j \in Others : i # j => Basename(env_list[i]) # Basename(env_list[j])

C8_NoClash ==
    \A i \in Others : Basename(env_list[i]) \notin {"base", Basename(base_path)}

EnvTypes == {"conda", "mamba", "virtualenv", "none"}

EnvNames == {"None", "a"}

EnvA == <<"opt", "conda", "envs", "a">>

\* the environment listings the remote answers with in Spec
MainListings == {<<>>, <<CondaBase>>, <<CondaBase, EnvA>>}

JupyterOverrides == {<<"None">>, <<"jupyter-3">>}

ModuleLists == {<<>>, <<"gcc">>, <<"gcc", "cuda">>}

LocalPorts == {"54321", "54322"}

Listings == SeqsUpTo(Lines, MaxList)

DigitStr == [n \in 0..9 |-> CHOOSE c \in DOMAIN DigitVal : DigitVal[c] = n]

\* what the user may type at a prompt
Answers ==
    {<<DigitStr[n]>> : n \in 0..(MaxList + 1)}
        \cup {<<"x">>, <<>>, <<"-", "1">>, <<" ", "2", " ">>}

Header == <<"Currently running servers:">>

\* the text "jupyter notebook list" prints for these lines
RECURSIVE JoinLines(_)
JoinLines(ls) ==
    IF ls = <<>> THEN <<>> ELSE <<"\n">> \o Head(ls) \o JoinLines(Tail(ls))

ListOutput(ls) == Header \o JoinLines(ls) \o <<"\n">>

\* running = self.strip_talk(running).split(os.linesep)[1:]
ParseListing(t, output) == Tail(PySplit(strip_talk(t, output), <<"\n">>))

\* exit status that is always 0
MainExitZero(e) == 0

\* main(): a JumpException is printed and the process exits with 1; any other
\* exception ends the interpreter with status 1; click exits with 0 otherwise
MainExit(e) == IF e = "none" THEN 0 ELSE 1

Fail(e, cond) ==
    /\ pc' = "exit"
    /\ exc' = e
    /\ error' = IF error = "none" THEN cond ELSE error
    /\ exitcode' = MainExit(e)

Goto(l) == pc' = l /\ UNCHANGED <<exc, error, exitcode>>

Finish == pc' = "exit" /\ exitcode' = MainExit("none") /\ UNCHANGED <<exc, error>>

MainInit == StripIdle /\ EnvsIdle /\ MainIdle /\ RemoteIdle

\* cli, line 269
CheckPlatform ==
    /\ pc = "platform"
    /\ \E windows \in BOOLEAN :
         IF windows THEN Fail("JumpException", "windows") ELSE Goto("connect")
    /\ UNCHANGED <<rvars, svars, evars, machine, env_name, jupyter, ctx_running, running,
                   invoked, answer, asked, opts, server_id, notebook_server,
                   targets, effects>>

\* Remote.__init__, the probe: self.talk = self._collect_talk()
Connect ==
    /\ pc = "connect"
    /\ \E r \in {"ok", "no_ssh", "refused"} :
         CASE r = "no_ssh" -> Fail("JumpException", "nossh") /\ UNCHANGED talk
           [] r = "refused" -> Fail("JumpException", "unreachable") /\ UNCHANGED talk
           [] OTHER -> Goto("session") /\ talk' = CollectTalk(probe)
    /\ UNCHANGED <<rvars, probe, sout, sres, evars, machine, env_name, jupyter, ctx_running,
                   running, invoked, answer, asked, opts, server_id,
                   notebook_server, targets, effects>>

\* Remote.__init__, the persistent session: self.machine = SshMachine(...)
OpenSession ==
    /\ pc = "session"
    /\ \E r \in {"ok", "mux", "value_error", "comms_error"} :
         CASE r = "ok" -> Goto("setup") /\ machine' = "ok"
           [] r = "mux" -> Fail("JumpException", "session") /\ machine' = "unset"
           [] r = "value_error" ->
                \* a ValueError with another text is swallowed: __init__ returns
                \* with no machine attribute
                /\ pc' = "setup" /\ error' = "session" /\ machine' = "unset"
                /\ UNCHANGED <<exc, exitcode>>
           [] OTHER -> Fail("SSHCommsError", "session") /\ machine' = "unset"
    /\ UNCHANGED <<rvars, svars, evars, env_name, jupyter, ctx_running, running, invoked,
                   answer, asked, opts, server_id, notebook_server, targets,
                   effects>>

\* cli, lines 277-279
SetupScript ==
    /\ pc = "setup"
    /\ \E given \in BOOLEAN :
         IF ~given THEN Goto("env") /\ UNCHANGED steps
         ELSE IF machine = "unset"
              THEN Fail("AttributeError", "session") /\ UNCHANGED steps
              ELSE Goto("env") /\ steps' = steps \cup {"setup"}
    /\ UNCHANGED <<rvars, svars, evars, machine, env_name, jupyter, ctx_running, running,
                   invoked, answer, asked, opts, server_id, notebook_server,
                   targets, stops, tunnel, browser>>

\* Remote.get_envs raises a JumpException for any other package manager
ManagerSupported(package_manager) ==
    package_manager \in {"conda", "miniconda", "mamba", "micromamba"}

\* Remote.get_envs for a supported package manager
get_envs(package_manager, listing, base) ==
    IF package_manager \in {"conda", "miniconda"}
    THEN get_conda_envs(listing, base \o BinConda)
    ELSE get_mamba_envs(listing, base)

BinJupyter == <<"bin", "jupyter">>

\* cli, lines 281-300
SelectEnv ==
    /\ pc = "env"
    /\ \E et \in EnvTypes, en \in EnvNames, listing \in MainListings :
         /\ manager' = et
         /\ IF et = "none"
            THEN /\ IF en # "None"
                    THEN Fail("JumpException", "usage") /\ UNCHANGED jupyter
                    ELSE Goto("launcher") /\ jupyter' = <<<<"jupyter">>, <<>>>>
                 /\ env_name' = en
                 /\ UNCHANGED <<env_list, base_path, registry, steps, asked>>
            ELSE IF et = "virtualenv"
            THEN /\ IF en = "None"
                    THEN Fail("JumpException", "usage") /\ UNCHANGED <<jupyter, steps>>
                    ELSE IF machine = "unset"
                    THEN Fail("AttributeError", "session") /\ UNCHANGED <<jupyter, steps>>
                    ELSE /\ Goto("launcher")
                         /\ jupyter' = <<<<"jupyter">>, <<>>>>
                         /\ steps' = steps \cup {"activate"}
                 /\ env_name' = en
                 /\ UNCHANGED <<env_list, base_path, registry, asked>>
            ELSE IF ~ManagerSupported(et)
            THEN /\ Fail("JumpException", "unsupported")
                 /\ env_name' = en
                 /\ UNCHANGED <<env_list, base_path, registry, steps, asked, jupyter>>
            ELSE IF machine = "unset"
            THEN /\ Fail("AttributeError", "session")
                 /\ env_name' = en
                 /\ UNCHANGED <<env_list, base_path, registry, steps, asked, jupyter>>
            ELSE /\ env_list' = listing
                 /\ base_path' = CondaBase
                 /\ registry' = get_envs(et, listing, CondaBase)
                 /\ steps' = steps \cup {"envlist"}
                 /\ env_name' = en
                 /\ IF en # "None"
                    THEN IF ~DictHas(registry', en)
                         THEN /\ Fail("JumpException", "env_not_found")
                              /\ UNCHANGED <<jupyter, asked>>
                         ELSE /\ Goto("launcher")
                              /\ jupyter' = <<DictGet(registry', en) \o BinJupyter, <<>>>>
                              /\ UNCHANGED asked
                    ELSE /\ Goto("env_prompt")
                         /\ asked' = asked \cup {"env"}
                         /\ UNCHANGED jupyter
    /\ UNCHANGED <<rvars, svars, machine, ctx_running, running, invoked, answer, opts,
                   server_id, notebook_server, targets, stops, tunnel, browser>>

\* is_valid of the environment prompt, line 304
EnvIsValid(x, n) == 0 < x /\ x <= n

\* user_input: the answer converts (no ValueError) and the converted value,
\* PyInt(a).val, passes is_valid
Accepts(a, is_valid) == PyInt(a).ok /\ is_valid

\* cli, lines 301-308: one answer to the environment prompt
EnvPrompt ==
    /\ pc = "env_prompt"
    /\ \E a \in Answers :
         /\ answer' = a
         /\ IF ~Accepts(a, EnvIsValid(PyInt(a).val, Len(registry)))
            THEN Goto("env_prompt") /\ UNCHANGED <<env_name, jupyter>>
            ELSE LET i == PyInt(a).val
                     keys == DictKeys(registry)
                 IN IF ~PyIndexOk(keys, i)
                    THEN Fail("IndexError", "index") /\ UNCHANGED <<env_name, jupyter>>
                    ELSE /\ Goto("launcher")
                         /\ env_name' = PyIndex(keys, i)
                         /\ jupyter' = <<DictGet(registry, PyIndex(keys, i)) \o BinJupyter, <<>>>>
    /\ UNCHANGED <<rvars, svars, evars, machine, ctx_running, running, invoked, asked,
                   opts, server_id, notebook_server, targets, effects>>

\* cli, lines 310-312: jupyter = remote.machine[jupyter_command]
Launcher ==
    /\ pc = "launcher"
    /\ \E override \in JupyterOverrides, found \in BOOLEAN :
         LET cmd == IF override = <<"None">> THEN jupyter[1] ELSE override
         IN IF machine = "unset"
            THEN Fail("AttributeError", "session") /\ UNCHANGED jupyter
            ELSE IF Len(cmd) = 1 /\ ~found
                 THEN Fail("CommandNotFound", "launcher") /\ UNCHANGED jupyter
                 ELSE Goto("listing") /\ jupyter' = <<jupyter[1], cmd>>
    /\ UNCHANGED <<rvars, svars, evars, machine, env_name, ctx_running, running, invoked,
                   answer, asked, opts, server_id, notebook_server, targets,
                   effects>>

\* cli, line 316: Remote.get_list_notebooks
ListNotebooks ==
    /\ pc = "listing"
    /\ \E works \in BOOLEAN, ls \in Listings :
         IF ~works
         THEN Fail("JumpException", "launcher") /\ UNCHANGED <<ctx_running, steps>>
         ELSE /\ Goto("dispatch")
              /\ ctx_running' = ParseListing(talk, ListOutput(ls))
              /\ steps' = steps \cup {"list"}
    /\ UNCHANGED <<rvars, svars, evars, machine, env_name, jupyter, running, invoked,
                   answer, asked, opts, server_id, notebook_server, targets,
                   stops, tunnel, browser>>

\* cli, lines 324-328, and click's dispatch to the sub-command
Dispatch ==
    /\ pc = "dispatch"
    /\ \E sc \in {"none", "attach", "list", "start", "kill"} :
         /\ invoked' = sc
         /\ IF sc = "none"
            THEN IF Len(ctx_running) = 0 THEN Goto("start") ELSE Goto("attach")
            ELSE Goto(sc)
    /\ UNCHANGED <<rvars, svars, evars, machine, env_name, jupyter, ctx_running, running,
                   answer, asked, opts, server_id, notebook_server, targets,
                   effects>>

\* list_notebooks
ListCmd ==
    /\ pc = "list"
    /\ Finish
    /\ UNCHANGED <<rvars, svars, evars, machine, env_name, jupyter, ctx_running, running,
                   invoked, answer, asked, opts, server_id, notebook_server,
                   targets, effects>>

\* an is_valid that also lets 0 through
AttachIsValidFromZero(x, n) == 0 <= x /\ x <= n

\* is_valid of the prompt of attach, line 352
AttachIsValid(x, n) == 1 <= x /\ x <= n

\* attach, lines 337-348
Attach ==
    /\ pc = "attach"
    /\ IF Len(ctx_running) = 0
       THEN Finish /\ UNCHANGED <<server_id, notebook_server, asked>>
       ELSE IF Len(ctx_running) = 1
       THEN /\ Goto("open")
            /\ server_id' = 0
            /\ notebook_server' = NotebookServer(PyIndex(ctx_running, 0))
            /\ UNCHANGED asked
       ELSE /\ Goto("attach_prompt")
            /\ asked' = asked \cup {"attach"}
            /\ UNCHANGED <<server_id, notebook_server>>
    /\ UNCHANGED <<rvars, svars, evars, machine, env_name, jupyter, ctx_running, running,
                   invoked, answer, opts, targets, effects>>

\* attach, lines 349-357: one answer to "Which id would you like?"
AttachPrompt ==
    /\ pc = "attach_prompt"
    /\ \E a \in Answers :
         /\ answer' = a
         /\ IF ~Accepts(a, AttachIsValid(PyInt(a).val, Len(ctx_running)))
            THEN Goto("attach_prompt") /\ UNCHANGED <<server_id, notebook_server>>
            ELSE LET id == PyInt(a).val - 1
                 IN IF ~PyIndexOk(ctx_running, id)
                    THEN Fail("IndexError", "index")
                         /\ UNCHANGED <<server_id, notebook_server>>
                    ELSE /\ Goto("open")
                         /\ server_id' = id
                         /\ notebook_server' = NotebookServer(PyIndex(ctx_running, id))
    /\ UNCHANGED <<rvars, svars, evars, machine, env_name, jupyter, ctx_running, running,
                   invoked, asked, opts, targets, effects>>

\* open_local: the port forward, then the browser
OpenLocal ==
    /\ pc = "open"
    /\ \E local_port \in LocalPorts :
         /\ tunnel' = Append(tunnel, [local |-> local_port,
                                      remote |-> UrlPort(UrlParse(notebook_server))])
         /\ browser' = Append(browser, LocalUrl(notebook_server, local_port))
    /\ Finish
    /\ UNCHANGED <<rvars, svars, evars, machine, env_name, jupyter, ctx_running, running,
                   invoked, answer, asked, opts, server_id, notebook_server,
                   targets, steps, stops>>

\* a pre-flight that reports the result of the last module only
PreflightLastOnly(mods, loadable) == IF mods[Len(mods)] \in loadable THEN 0 ELSE 1

\* returncode of ". /etc/profile && module load m1 && module load m2 ..."
PreflightReturncode(mods, loadable) ==
    IF \A i \in 1..Len(mods) : mods[i] \in loadable THEN 0 ELSE 1

\* start and Remote.start_jupyter_server, lines 194-214
StartServer ==
    /\ pc = "start"
    /\ \E lab \in BOOLEAN, mods \in ModuleLists :
       \E loadable \in SUBSET Range(mods) :
         /\ invoked = "none" => ~lab
         /\ opts' = [opts EXCEPT !.lab = lab, !.module = mods, !.loadable = loadable]
         /\ IF mods # <<>> /\ PreflightReturncode(mods, loadable) # 0
            THEN /\ Fail("JumpException", "module_load")
                 /\ steps' = steps \cup {"preflight"}
                 /\ UNCHANGED running
            ELSE /\ Goto("poll")
                 /\ steps' = steps \cup (IF mods # <<>> THEN {"preflight"} ELSE {})
                                   \cup {"start"}
                 /\ running' = <<>>
    /\ UNCHANGED <<rvars, svars, evars, machine, env_name, jupyter, ctx_running, invoked,
                   answer, asked, server_id, notebook_server, targets, stops,
                   tunnel, browser>>

\* start_jupyter_server, lines 215-218: one round of the wait loop
Poll ==
    /\ pc = "poll"
    /\ Len(running) <= Len(ctx_running)
    /\ \E works \in BOOLEAN, ls \in Listings :
         IF ~works
         THEN Fail("ProcessExecutionError", "launcher") /\ UNCHANGED <<running, steps>>
         ELSE /\ Goto("poll")
              /\ running' = ParseListing(talk, ListOutput(ls))
              /\ steps' = steps \cup {"poll"}
    /\ UNCHANGED <<rvars, svars, evars, machine, env_name, jupyter, ctx_running, invoked,
                   answer, asked, opts, server_id, notebook_server, targets,
                   stops, tunnel, browser>>

\* [i for i, s in enumerate(running) if s not in running_servers]
NewServers(now, before) ==
    LET RECURSIVE Upto(_)
        Upto(n) == IF n = 0 THEN <<>> ELSE Append(Upto(n - 1), n - 1)
        IsNew(i) == now[i + 1] \notin Range(before)
    IN SelectSeq(Upto(Len(now)), IsNew)

\* an assertion that accepts any number of new servers but zero
AtLeastOneNew(new_servers) == Len(new_servers) >= 1

\* assert len(new_servers) == 1
ExactlyOneNew(new_servers) == Len(new_servers) = 1

\* start_jupyter_server, lines 219-222, and start, line 389
PollDone ==
    /\ pc = "poll"
    /\ Len(running) > Len(ctx_running)
    /\ LET new_servers == NewServers(running, ctx_running)
       IN IF ~ExactlyOneNew(new_servers)
          THEN Fail("AssertionError", "not_one_new")
               /\ UNCHANGED <<server_id, notebook_server>>
          ELSE /\ Goto("open")
               /\ server_id' = new_servers[1]
               /\ notebook_server' = NotebookServer(PyIndex(running, new_servers[1]))
    /\ UNCHANGED <<rvars, svars, evars, machine, env_name, jupyter, ctx_running, running,
                   invoked, answer, asked, opts, targets, effects>>

\* is_valid of the prompt of kill, line 424
KillIsValid(x, n) == 0 <= x /\ x <= n

\* kill, lines 402-420
Kill ==
    /\ pc = "kill"
    /\ \E killall \in BOOLEAN :
         /\ opts' = [opts EXCEPT !.killall = killall]
         /\ IF Len(ctx_running) = 0
            THEN Finish /\ UNCHANGED <<targets, asked>>
            ELSE IF killall
            THEN Goto("stopping") /\ targets' = ctx_running /\ UNCHANGED asked
            ELSE IF Len(ctx_running) = 1
            THEN Goto("stopping") /\ targets' = <<PyIndex(ctx_running, 0)>>
                 /\ UNCHANGED asked
            ELSE Goto("kill_prompt") /\ asked' = asked \cup {"kill"}
                 /\ UNCHANGED targets
    /\ UNCHANGED <<rvars, svars, evars, machine, env_name, jupyter, ctx_running, running,
                   invoked, answer, server_id, notebook_server, effects>>

\* kill, lines 421-431: one answer to "Which id would you like? (0 kills all)"
KillPrompt ==
    /\ pc = "kill_prompt"
    /\ \E a \in Answers :
         /\ answer' = a
         /\ IF ~Accepts(a, KillIsValid(PyInt(a).val, Len(ctx_running)))
            THEN Goto("kill_prompt") /\ UNCHANGED <<server_id, targets>>
            ELSE /\ Goto("stopping")
                 /\ server_id' = PyInt(a).val - 1
                 /\ targets' = IF server_id' # -1
                               THEN <<PyIndex(ctx_running, server_id')>>
                               ELSE ctx_running
    /\ UNCHANGED <<rvars, svars, evars, machine, env_name, jupyter, ctx_running, running,
                   invoked, asked, opts, notebook_server, effects>>

\* kill, lines 433-439: the stop command for the next server
StopNext ==
    /\ pc = "stopping"
    /\ targets # <<>>
    /\ stops' = Append(stops, KillPort(Head(targets)))
    /\ targets' = Tail(targets)
    /\ Goto("stopping")
    /\ UNCHANGED <<rvars, svars, evars, machine, env_name, jupyter, ctx_running, running,
                   invoked, answer, asked, opts, server_id, notebook_server,
                   steps, tunnel, browser>>

\* kill, lines 440-441
KillDone ==
    /\ pc = "stopping"
    /\ targets = <<>>
    /\ Finish
    /\ UNCHANGED <<rvars, svars, evars, machine, env_name, jupyter, ctx_running, running,
                   invoked, answer, asked, opts, server_id, notebook_server,
                   targets, effects>>

Next ==
    \/ CheckPlatform \/ Connect \/ OpenSession \/ SetupScript \/ SelectEnv
    \/ EnvPrompt \/ Launcher \/ ListNotebooks \/ Dispatch \/ ListCmd
    \/ Attach \/ AttachPrompt \/ OpenLocal \/ StartServer \/ Poll \/ PollDone
    \/ Kill \/ KillPrompt \/ StopNext \/ KillDone

Spec == MainInit /\ [][Next]_vars

(***************************************************************************)
(* The claims checked under Spec.                                          *)
(***************************************************************************)
N == Len(ctx_running)

\* the attach command body ran: invoked by name, or by default with servers
AttachPath == invoked = "attach" \/ (invoked = "none" /\ N > 0)

AttachSelected == AttachPath /\ N >= 1 /\ pc \in {"open", "exit"} /\ exc = "none"

\* the answer is an integer in [1, n]
InRange(a, n) == PyInt(a).ok /\ PyInt(a).val \in 1..n

C1_State ==
    /\ (AttachSelected /\ N = 1) => ("attach" \notin asked /\ server_id = 0)
    /\ (AttachSelected /\ N > 1) =>
          /\ "attach" \in asked
          /\ InRange(answer, N)
          /\ server_id = PyInt(answer).val - 1
    /\ (AttachSelected /\ pc = "exit") =>
          /\ Len(tunnel) = 1
          /\ tunnel[1].remote = LineRec(ctx_running[server_id + 1]).port

C1_Step ==
    pc = "attach_prompt" =>
        IF InRange(answer', N)
        THEN pc' = "open"
        ELSE pc' = "attach_prompt" /\ UNCHANGED <<server_id, effects>>

\* C1: in the attach path a single running server is selected without a
\* question; with N > 1 servers only an answer that is an integer in [1, N] is
\* accepted, any other answer (0, N+1, not a number) asks again, and the tunnel
\* goes to the port of the record listed under the accepted number.
C1_AttachSelection == [][C1_State' /\ C1_Step]_vars

\* attach with two different servers listed, "2" answered, tunnel to the second
C1_Witness ==
    /\ pc = "exit" /\ invoked = "attach" /\ N = 2 /\ ctx_running[1] # ctx_running[2]
    /\ answer = <<"2">> /\ Len(tunnel) = 1
    /\ tunnel[1].remote = LineRec(ctx_running[2]).port

\* C2: with an empty listing and no sub-command, a server start is requested
\* only after the user was asked yes/no whether to start one.
C2_AskedBeforeStart ==
    (invoked = "none" /\ N = 0 /\ steps \cap {"preflight", "start"} # {})
        => "start?" \in asked

StartReturned == "start" \in steps /\ pc \in {"open", "exit"} /\ exc = "none"

\* the positions of the lines of now that are not lines of before
NewPositions(now, before) == {j \in 1..Len(now) : now[j] \notin Range(before)}

C3_State ==
    StartReturned =>
        /\ Len(running) > N
        /\ NewPositions(running, ctx_running) = {server_id + 1}

C3_Step ==
    (pc = "poll" /\ Len(running) > N) =>
        IF Cardinality(NewPositions(running, ctx_running)) = 1
        THEN pc' = "open" /\ running' = running
        ELSE /\ pc' = "exit" /\ exc' = "AssertionError"
             /\ UNCHANGED <<server_id, tunnel, browser>>

\* C3: start_jupyter_server returns the polled listing and the index of the one
\* record of it that was not in the listing before the start; a polled listing
\* that is longer than the previous one and holds no such record, or more than
\* one, ends in the assertion failure instead of a result.
C3_ExactlyOneNew == [][C3_State' /\ C3_Step]_vars

\* a start with one server listed before and a new one listed behind it
C3_Witness ==
    /\ StartReturned /\ pc = "exit" /\ Len(tunnel) = 1
    /\ N = 1 /\ Len(running) = 2 /\ server_id = 1

KillAllRan == invoked = "kill" /\ opts.killall /\ N >= 1

ListedPorts == {LineRec(ctx_running[i]).port : i \in 1..N}

PreflightFailed ==
    /\ "preflight" \in steps
    /\ \E i \in 1..Len(opts.module) : opts.module[i] \notin opts.loadable

\* C5: when one of the modules of a start fails to load in the pre-flight
\* check, the invocation ends with the module-load error: no start command is
\* sent, no listing is polled, no tunnel is opened.
C5_PreflightAborts ==
    PreflightFailed =>
        /\ pc = "exit" /\ exc = "JumpException" /\ error = "module_load"
        /\ steps \cap {"start", "poll"} = {}
        /\ tunnel = <<>> /\ browser = <<>>

\* two modules of which the first loads and the second does not
C5_Witness ==
    /\ PreflightFailed /\ opts.module = <<"gcc", "cuda">> /\ opts.loadable = {"gcc"}
    /\ pc = "exit" /\ exitcode = 1

ListedErrors ==
    {"unreachable", "nossh", "session", "unsupported", "launcher", "module_load",
     "not_one_new"}

C6_State ==
    error \in ListedErrors =>
        \/ pc = "exit" /\ exc # "none" /\ exitcode # 0
        \/ machine = "unset" /\ pc \in {"setup", "env", "launcher"} /\ exitcode = -1

C6_Step ==
    error \in ListedErrors =>
        /\ UNCHANGED effects
        /\ pc = "launcher" => pc' = "exit"

\* C6: once one of the listed error conditions has occurred, no remote step, stop
\* command, tunnel or browser call is executed any more, and the invocation ends
\* with an exception and a non-zero exit status (a session that could not be
\* opened ends it at the first use of the session at the latest).
C6_Fatal == [][C6_State' /\ C6_Step]_vars

\* a session that failed with a swallowed ValueError: the invocation has ended
\* at the first use of the session, with no remote step executed
C6_Witness ==
    /\ pc = "exit" /\ error = "session" /\ exc = "AttributeError"
    /\ exitcode = 1 /\ steps = {} /\ tunnel = <<>>

\* the line of the listing that attach or start has chosen
ChosenLine ==
    IF "start" \in steps THEN running[server_id + 1] ELSE ctx_running[server_id + 1]

\* C9: the url handed to the browser is the url of the chosen record with the
\* network location replaced by localhost:<local port>, the directory of the
\* record is not part of it, and the tunnel maps that local port to the port of
\* the record's url.
C9_LocalUrl ==
    tunnel # <<>> =>
        LET r == LineRec(ChosenLine)
            lp == tunnel[1].local
        IN /\ browser[1] = <<r.scheme, "://", "localhost", ":", lp>> \o r.path
                              \o <<"?">> \o r.query
           /\ r.dir \notin Range(browser[1])
           /\ tunnel[1].remote = r.port

\* the environment prompt has just accepted an answer
EnvAnswered ==
    /\ "env" \in asked /\ "list" \notin steps /\ pc \in {"launcher", "exit"}
    /\ InRange(answer, Len(registry))

\* C10: a number in [1, K] accepted by the environment prompt selects the
\* environment printed under that number, without an out-of-range access, and
\* the launcher is <path of that environment>/bin/jupyter.
C10_EnvSelection ==
    EnvAnswered =>
        /\ error # "index"
        /\ env_name = registry[PyInt(answer).val][1]
        /\ jupyter[1] = registry[PyInt(answer).val][2] \o BinJupyter


(***************************************************************************)
(* SpecPoll: the start command from its first statement on, with the       *)
(* servers of the remote host followed in remote_servers.  The listing     *)
(* that cli took is the one of the initial state; between any two steps of *)
(* the tool the started server may come up and other servers may stop or   *)
(* start.  One round of the wait loop is two steps here, the sleep and the *)
(* listing, so that a loop that never ends is a run that keeps moving.     *)
(***************************************************************************)
\* the record of the server that the start command brings up
Rec3 == [scheme |-> "http", host |-> "localhost", port |-> "8890", path |-> <<"/">>,
         query |-> <<"token=ghi">>, sep |-> <<" ", ":", ":", " ">>, dir |-> "/home/u/new"]

NewLine == RecordLine(Rec3)

\* listings of pairwise different lines: every server has a port of its own
ServerListings(lines) ==
    {l \in SeqsUpTo(lines, Cardinality(lines)) :
        \A i, j \in 1..Len(l) : i # j => l[i] # l[j]}

\* seq without its i-th element
RemoveAt(seq, i) == SubSeq(seq, 1, i - 1) \o SubSeq(seq, i + 1, Len(seq))

\* cli has connected, found the launcher and listed the servers; start begins
PollInit ==
    /\ probe = Sentinel /\ talk = CollectTalk(Sentinel) /\ sout = <<>> /\ sres = <<>>
    /\ manager = "none" /\ env_list = <<>> /\ base_path = <<>> /\ registry = <<>>
    /\ remote_servers \in ServerListings(Lines)
    /\ ctx_running = ParseListing(talk, ListOutput(remote_servers))
    /\ pc = "start" /\ invoked = "start" /\ steps = {"list"}
    /\ machine = "ok" /\ exc = "none" /\ error = "none" /\ exitcode = -1
    /\ env_name = "None" /\ jupyter = <<<<"jupyter">>, <<"jupyter">>>>
    /\ running = <<>> /\ answer = <<>> /\ asked = {} /\ opts = NoOpts
    /\ server_id = -1 /\ notebook_server = <<>> /\ targets = <<>>
    /\ stops = <<>> /\ tunnel = <<>> /\ browser = <<>>

\* the detached server of lines 207 / 210 has come up and is listed
ServerUp ==
    /\ "start" \in steps
    /\ NewLine \notin Range(remote_servers)
    /\ remote_servers' = Append(remote_servers, NewLine)
    /\ UNCHANGED <<svars, evars, mvars>>

\* another server of the host stops
OtherStops ==
    /\ \E i \in 1..Len(remote_servers) :
         /\ remote_servers[i] # NewLine
         /\ remote_servers' = RemoveAt(remote_servers, i)
    /\ UNCHANGED <<svars, evars, mvars>>

\* another server of the host starts
OtherStarts ==
    /\ \E l \in Lines :
         /\ l \notin Range(remote_servers)
         /\ remote_servers' = Append(remote_servers, l)
    /\ UNCHANGED <<svars, evars, mvars>>

\* start_jupyter_server, lines 215-216: the loop test and time.sleep(1)
Sleep ==
    /\ pc = "poll"
    /\ Len(running) <= Len(ctx_running)
    /\ Goto("slept")
    /\ UNCHANGED <<rvars, svars, evars, machine, env_name, jupyter, ctx_running,
                   running, invoked, answer, asked, opts, server_id,
                   notebook_server, targets, effects>>

\* start_jupyter_server, lines 217-218: the listing of the servers there are
PollListing ==
    /\ pc = "slept"
    /\ \E works \in BOOLEAN :
         IF ~works
         THEN Fail("ProcessExecutionError", "launcher") /\ UNCHANGED <<running, steps>>
         ELSE /\ Goto("poll")
              /\ running' = ParseListing(talk, ListOutput(remote_servers))
              /\ steps' = steps \cup {"poll"}
    /\ UNCHANGED <<rvars, svars, evars, machine, env_name, jupyter, ctx_running,
                   invoked, answer, asked, opts, server_id, notebook_server,
                   targets, stops, tunnel, browser>>

\* the steps of start_jupyter_server: one thread, which runs whenever it can
PollProcess == StartServer \/ Sleep \/ PollListing \/ PollDone

PollNext ==
    \/ StartServer \/ Sleep \/ PollListing \/ PollDone \/ OpenLocal
    \/ ServerUp \/ OtherStops \/ OtherStarts

SpecPoll == PollInit /\ [][PollNext]_vars /\ WF_vars(PollProcess)

NewListed == NewLine \in Range(remote_servers)

InPollLoop == pc \in {"poll", "slept"}

\* C11: after a start request, if the record of the started server eventually
\* is in the remote listing and stays in it, the wait loop of
\* start_jupyter_server is eventually left, whether or not other servers of the
\* host stop or start between two polls.
C11_PollTerminates == (<>[]NewListed) => <>("start" \in steps /\ ~InPollLoop)

=============================================================================
